---------------------------- MODULE Spec2Model ----------------------------
(***************************************************************************)
(* ComplexPlot: the expression compiler (tokenizer, shunting-yard parser,   *)
(* symbol tables, the two code generators, the Expression facade) as state  *)
(* machines.                                                                *)
(*                                                                          *)
(* A JavaScript string is a sequence of one-character strings, so that the  *)
(* tokenizer's regular expression and parseFloat work on characters.        *)
(* Generated program text (GLSL, JavaScript) is a TLA+ string.              *)
(***************************************************************************)
EXTENDS Integers, Sequences, FiniteSets, TLC

VARIABLES
    input,          \* tokenize: the string handed to tokenize
    tokenized,      \* tokenize: what the call did (pending / returned / threw)
    tokens,         \* parseTokens: the token array being parsed
    parser,         \* parseTokens: the loop's locals and the call's outcome
    ast,            \* Expression.ast
    jsFunction,     \* Expression.jsFunction
    lastSource,     \* the argument of the latest Expression.parse call
    lastOutcome,    \* "returned" or "threw": how that call ended
    lastError,      \* the error it threw (NoError when it returned)
    compiledSource, \* the argument of the latest parse call that returned
    calls,          \* the constructor's argument and what has been called since
    operands,       \* Complex: the arguments a and b of a static method
    computed,       \* Complex: the method applied to them and what it returned
    app             \* App: the input field, the timers, the renderers, the panel

vars == <<input, tokenized, tokens, parser, ast, jsFunction, lastSource,
          lastOutcome, lastError, compiledSource, calls, operands, computed, app>>

tokenizerVars == <<input, tokenized>>
parserVars == <<tokens, parser>>
expressionVars == <<ast, jsFunction, lastSource, lastOutcome, lastError,
                    compiledSource, calls>>
complexVars == <<operands, computed>>
appVars == <<app>>

(***************************************************************************)
(* Bounds of the model.                                                     *)
(***************************************************************************)
\* longest input string the tokenizer specification enumerates
MaxInputLen == 4
\* longest arbitrary token array the parser specification enumerates
MaxTokens == 3

(***************************************************************************)
(* Generic helpers.                                                         *)
(***************************************************************************)
Null == [type |-> "null"]

NoError == [message |-> "", about |-> << >>]

Throw(msg, what) == [status |-> "threw", error |-> [message |-> msg, about |-> what]]

\* all sequences over S of length at most n
RECURSIVE SeqsUpTo(_, _)
SeqsUpTo(S, n) ==
    IF n = 0 THEN {<< >>}
    ELSE LET shorter == SeqsUpTo(S, n - 1)
         IN  shorter \cup {Append(s, c) : s \in {t \in shorter : Len(t) = n - 1}, c \in S}

\* the concatenation of a sequence of sequences
RECURSIVE Concat(_)
Concat(ss) == IF ss = << >> THEN << >> ELSE Head(ss) \o Concat(Tail(ss))

RECURSIVE Pow10(_)
Pow10(k) == IF k = 0 THEN 1 ELSE 10 * Pow10(k - 1)

(***************************************************************************)
(* Character classes of TOKEN_REGEX and of /\s+/.                           *)
(***************************************************************************)
LowerCase == {"a","b","c","d","e","f","g","h","i","j","k","l","m",
              "n","o","p","q","r","s","t","u","v","w","x","y","z"}
UpperCase == {"A","B","C","D","E","F","G","H","I","J","K","L","M",
              "N","O","P","Q","R","S","T","U","V","W","X","Y","Z"}
Digits == {"0","1","2","3","4","5","6","7","8","9"}
IdentifierStart == LowerCase \cup UpperCase \cup {"_"}
IdentifierPart == IdentifierStart \cup Digits
OperatorChars == {"+", "-", "*", "/", "^"}
ParenChars == {"(", ")"}
Whitespace == {" ", "\t", "\n"}

DigitValue(c) ==
    CASE c = "0" -> 0 [] c = "1" -> 1 [] c = "2" -> 2 [] c = "3" -> 3
      [] c = "4" -> 4 [] c = "5" -> 5 [] c = "6" -> 6 [] c = "7" -> 7
      [] c = "8" -> 8 [] c = "9" -> 9

(***************************************************************************)
(* parseFloat: the longest prefix that is a decimal literal, or Infinity,  *)
(* or NaN.  A finite value is mantissa / 10^exponent with no trailing zero  *)
(* in the fraction, so that equal numbers are equal records.                *)
(***************************************************************************)
NaN == [kind |-> "NaN"]
Infinity == [kind |-> "Infinity"]
Num(m, e) == [kind |-> "number", mantissa |-> m, exponent |-> e]

RECURSIVE Normalize(_, _)
Normalize(m, e) ==
    IF e > 0 /\ m % 10 = 0 THEN Normalize(m \div 10, e - 1) ELSE Num(m, e)

\* how many characters of s from position i on lie in Class
RECURSIVE RunLength(_, _, _)
RunLength(s, i, Class) ==
    IF i > Len(s) \/ s[i] \notin Class THEN 0 ELSE 1 + RunLength(s, i + 1, Class)

RECURSIVE DigitsValue(_)
DigitsValue(ds) ==
    IF ds = << >> THEN 0
    ELSE 10 * DigitsValue(SubSeq(ds, 1, Len(ds) - 1)) + DigitValue(ds[Len(ds)])

S_Infinity == <<"I","n","f","i","n","i","t","y">>

IsPrefix(p, s) == Len(p) <= Len(s) /\ SubSeq(s, 1, Len(p)) = p

parseFloat(s) ==
    IF s # << >> /\ s[1] \in Digits
    THEN LET d1 == RunLength(s, 1, Digits)
             dot == IF d1 + 1 <= Len(s) /\ s[d1 + 1] = "." THEN 1 ELSE 0
             d2 == IF dot = 1 THEN RunLength(s, d1 + 2, Digits) ELSE 0
         IN  Normalize(DigitsValue(SubSeq(s, 1, d1) \o SubSeq(s, d1 + 2, d1 + 1 + d2)), d2)
    ELSE IF IsPrefix(S_Infinity, s) THEN Infinity
    ELSE NaN

isNaN(v) == v = NaN

(***************************************************************************)
(* The tokenizer.                                                           *)
(***************************************************************************)
Token(t, v) == [type |-> t, value |-> v]

\* input.replace(/\s+/g, '')
StripWhitespace(s) == SelectSeq(s, LAMBDA c : c \notin Whitespace)

\* the length of TOKEN_REGEX's match at position i of s, 0 when it matches nothing there
TOKEN_REGEX(s, i) ==
    IF s[i] \in IdentifierStart THEN 1 + RunLength(s, i + 1, IdentifierPart)
    ELSE IF s[i] \in Digits
    THEN LET d1 == RunLength(s, i, Digits)
             dot == IF i + d1 <= Len(s) /\ s[i + d1] = "." THEN 1 ELSE 0
         IN  d1 + dot + RunLength(s, i + d1 + dot, Digits)
    ELSE IF s[i] \in OperatorChars \cup ParenChars THEN 1
    ELSE IF s[i] = "," THEN 1
    ELSE 0

\* s.match(TOKEN_REGEX) with the g flag: every match from position i on, left to
\* right; a character at which nothing matches is passed over
RECURSIVE MatchAll(_, _)
MatchAll(s, i) ==
    IF i > Len(s) THEN << >>
    ELSE LET n == TOKEN_REGEX(s, i)
         IN  IF n = 0 THEN MatchAll(s, i + 1)
             ELSE <<SubSeq(s, i, i + n - 1)>> \o MatchAll(s, i + n)

\* the callback of matches.map
ClassifyLexeme(value) ==
    IF ~isNaN(parseFloat(value)) THEN Token("Number", value)
    ELSE IF \E i \in 1..Len(value) : value[i] \in OperatorChars THEN Token("Operator", value)
    ELSE IF value = <<"(">> THEN Token("LeftParen", value)
    ELSE IF value = <<")">> THEN Token("RightParen", value)
    ELSE IF value = <<",">> THEN Token("Comma", value)
    ELSE Token("Identifier", value)

tokenize(in) ==
    IF in = << >> THEN Throw("Function cannot be empty.", << >>)
    ELSE LET matches == MatchAll(StripWhitespace(in), 1)
         IN  IF matches = << >> THEN Throw("Invalid characters in function.", << >>)
             ELSE [status |-> "returned",
                   tokens |-> [i \in 1..Len(matches) |-> ClassifyLexeme(matches[i])]]

(***************************************************************************)
(* Names that occur in the symbol tables and in the inputs.                 *)
(***************************************************************************)
S_z == <<"z">>
S_w == <<"w">>
S_pi == <<"p","i">>
S_e == <<"e">>
S_i == <<"i">>
S_sin == <<"s","i","n">>
S_cos == <<"c","o","s">>
S_sinh == <<"s","i","n","h">>
S_cosh == <<"c","o","s","h">>
S_exp == <<"e","x","p">>
S_log == <<"l","o","g">>
S_sqrt == <<"s","q","r","t">>
S_pow == <<"p","o","w">>
S_valueOf == <<"v","a","l","u","e","O","f">>
S_toString == <<"t","o","S","t","r","i","n","g">>
S_constructor == <<"c","o","n","s","t","r","u","c","t","o","r">>

(***************************************************************************)
(* The symbol tables.  js is the name property of the Complex static method *)
(* the entry references.                                                    *)
(***************************************************************************)
OPERATORS ==
    (<<"+">> :> [precedence |-> 2, associativity |-> "left", glsl |-> "c_add", js |-> "add"]) @@
    (<<"-">> :> [precedence |-> 2, associativity |-> "left", glsl |-> "c_sub", js |-> "sub"]) @@
    (<<"*">> :> [precedence |-> 3, associativity |-> "left", glsl |-> "c_mul", js |-> "mul"]) @@
    (<<"/">> :> [precedence |-> 3, associativity |-> "left", glsl |-> "c_div", js |-> "div"]) @@
    (<<"^">> :> [precedence |-> 4, associativity |-> "right", glsl |-> "c_pow", js |-> "pow"])

FUNCTIONS ==
    (S_sin :> [arity |-> 1, glsl |-> "c_sin", js |-> "sin"]) @@
    (S_cos :> [arity |-> 1, glsl |-> "c_cos", js |-> "cos"]) @@
    (S_sinh :> [arity |-> 1, glsl |-> "c_sinh", js |-> "sinh"]) @@
    (S_cosh :> [arity |-> 1, glsl |-> "c_cosh", js |-> "cosh"]) @@
    (S_exp :> [arity |-> 1, glsl |-> "c_exp", js |-> "exp"]) @@
    (S_log :> [arity |-> 1, glsl |-> "c_log", js |-> "log"]) @@
    (S_sqrt :> [arity |-> 1, glsl |-> "c_sqrt", js |-> "sqrt"]) @@
    (S_pow :> [arity |-> 2, glsl |-> "c_pow", js |-> "pow"])

\* the keys of CONSTANTS; an entry's value and glsl are ConstantValue and
\* ConstantGlsl below
CONSTANTS_TABLE == (S_pi :> "pi") @@ (S_e :> "e") @@ (S_i :> "i")

\* The tables are object literals: table[name] with a name that is no key of the
\* literal reads Object.prototype.  These are the names it answers (a sample of
\* them); each answer is an object or function with no arity, glsl, js or value.
ObjectPrototype == {S_valueOf, S_toString, S_constructor}

HasOwn(table, name) == name \in DOMAIN table

\* whether table[name] is truthy
Truthy(table, name) == HasOwn(table, name) \/ name \in ObjectPrototype

(***************************************************************************)
(* AST nodes.                                                               *)
(***************************************************************************)
Constant(v) == [type |-> "Constant", value |-> v]
Variable(n) == [type |-> "Variable", name |-> n]
BinaryOperation(op, l, r) == [type |-> "BinaryOperation", operator |-> op, left |-> l, right |-> r]
FunctionCall(f, args) == [type |-> "FunctionCall", functionName |-> f, args |-> args]
UnaryMinus(x) == [type |-> "UnaryMinus", operand |-> x]

\* the marker { type: 'UnaryMinus' } on the operator stack
UnaryMinusMarker == [type |-> "UnaryMinus"]

(***************************************************************************)
(* The parser.  A helper answers [ok |-> TRUE, ...] or, when the code       *)
(* throws, [ok |-> FALSE, error |-> ...].                                   *)
(***************************************************************************)
Fail(msg, what) == [ok |-> FALSE, error |-> [message |-> msg, about |-> what]]

Top(stack) == stack[Len(stack)]
Pop(stack) == SubSeq(stack, 1, Len(stack) - 1)

\* applyOperator popping left before right: the operands of a binary operator
\* change places
applyOperator_SwapsOperands(outputQueue, op) ==
    IF op.type = "UnaryMinus"
    THEN IF Len(outputQueue) < 1 THEN Fail("Syntax Error: Invalid unary minus.", << >>)
         ELSE [ok |-> TRUE,
               outputQueue |-> Append(Pop(outputQueue), UnaryMinus(Top(outputQueue)))]
    ELSE IF op.type = "Identifier"
    THEN IF HasOwn(FUNCTIONS, op.value)
         THEN IF Len(outputQueue) < FUNCTIONS[op.value].arity
              THEN Fail("Syntax Error: Not enough arguments for function", op.value)
              ELSE [ok |-> TRUE,
                    outputQueue |->
                        Append(SubSeq(outputQueue, 1, Len(outputQueue) - FUNCTIONS[op.value].arity),
                               FunctionCall(op.value,
                                   SubSeq(outputQueue,
                                          Len(outputQueue) - FUNCTIONS[op.value].arity + 1,
                                          Len(outputQueue))))]
         ELSE [ok |-> TRUE, outputQueue |-> <<FunctionCall(op.value, outputQueue)>>]
    ELSE IF Len(outputQueue) < 2
         THEN Fail("Syntax Error: Missing operand for operator", op.value)
         ELSE [ok |-> TRUE,
               outputQueue |-> Append(SubSeq(outputQueue, 1, Len(outputQueue) - 2),
                   BinaryOperation(op.value, outputQueue[Len(outputQueue)],
                                   outputQueue[Len(outputQueue) - 1]))]

applyOperator(outputQueue, op) ==
    IF op.type = "UnaryMinus"
    THEN IF Len(outputQueue) < 1 THEN Fail("Syntax Error: Invalid unary minus.", << >>)
         ELSE [ok |-> TRUE,
               outputQueue |-> Append(Pop(outputQueue), UnaryMinus(Top(outputQueue)))]
    ELSE IF op.type = "Identifier"
    THEN IF HasOwn(FUNCTIONS, op.value)
         THEN LET arity == FUNCTIONS[op.value].arity
                  n == Len(outputQueue)
              IN  IF n < arity
                  THEN Fail("Syntax Error: Not enough arguments for function", op.value)
                  ELSE [ok |-> TRUE,
                        outputQueue |-> Append(SubSeq(outputQueue, 1, n - arity),
                            FunctionCall(op.value, SubSeq(outputQueue, n - arity + 1, n)))]
         \* funcInfo is inherited from Object.prototype: funcInfo.arity is undefined,
         \* length < undefined is false, and splice(NaN) removes from index 0
         ELSE [ok |-> TRUE, outputQueue |-> <<FunctionCall(op.value, outputQueue)>>]
    ELSE IF Len(outputQueue) < 2
         THEN Fail("Syntax Error: Missing operand for operator", op.value)
         ELSE LET n == Len(outputQueue)
              IN  [ok |-> TRUE,
                   outputQueue |-> Append(SubSeq(outputQueue, 1, n - 2),
                       BinaryOperation(op.value, outputQueue[n - 1], outputQueue[n]))]

\* ShouldPop with the precedence comparison the wrong way round
ShouldPop_Reversed(op1, op2) ==
    \/ OPERATORS[op1].associativity = "left" /\ OPERATORS[op1].precedence >= OPERATORS[op2].precedence
    \/ OPERATORS[op1].associativity = "right" /\ OPERATORS[op1].precedence > OPERATORS[op2].precedence

\* ShouldPop with every operator treated as left-associative
ShouldPop_AllLeft(op1, op2) == OPERATORS[op1].precedence <= OPERATORS[op2].precedence

\* the condition under which the precedence loop pops op2 for the incoming op1
ShouldPop(op1, op2) ==
    \/ OPERATORS[op1].associativity = "left" /\ OPERATORS[op1].precedence <= OPERATORS[op2].precedence
    \/ OPERATORS[op1].associativity = "right" /\ OPERATORS[op1].precedence < OPERATORS[op2].precedence

\* TopAction leaving a unary-minus marker on the stack
TopAction_KeepUnaryMinus(topOp, op1) ==
    IF topOp.type \in {"LeftParen", "UnaryMinus", "Identifier"} THEN "break"
    ELSE IF OPERATORS[op1].associativity = "left"
            /\ OPERATORS[op1].precedence <= OPERATORS[topOp.value].precedence THEN "apply"
    ELSE IF OPERATORS[op1].associativity = "right"
            /\ OPERATORS[op1].precedence < OPERATORS[topOp.value].precedence THEN "apply"
    ELSE "break"

\* TopAction ranking unary minus below ^: the marker stays when ^ comes in
TopAction_UnaryMinusBelowPower(topOp, op1) ==
    IF topOp.type = "LeftParen" THEN "break"
    ELSE IF topOp.type = "UnaryMinus" THEN (IF op1 = <<"^">> THEN "break" ELSE "apply")
    ELSE IF topOp.type = "Identifier" THEN "break"
    ELSE IF OPERATORS[op1].associativity = "left"
            /\ OPERATORS[op1].precedence <= OPERATORS[topOp.value].precedence THEN "apply"
    ELSE IF OPERATORS[op1].associativity = "right"
            /\ OPERATORS[op1].precedence < OPERATORS[topOp.value].precedence THEN "apply"
    ELSE "break"

\* what the precedence loop does with the top of the stack: "break", or "apply"
TopAction(topOp, op1) ==
    IF topOp.type = "LeftParen" THEN "break"
    ELSE IF topOp.type = "UnaryMinus" THEN "apply"
    ELSE IF topOp.type = "Identifier" THEN "break"
    ELSE IF ShouldPop(op1, topOp.value) THEN "apply"
    ELSE "break"

\* the while loop of case 'Operator'
RECURSIVE PrecedenceLoop(_, _, _)
PrecedenceLoop(outputQueue, operatorStack, op1) ==
    IF Len(operatorStack) = 0 \/ TopAction(Top(operatorStack), op1) = "break"
    THEN [ok |-> TRUE, outputQueue |-> outputQueue, operatorStack |-> operatorStack]
    ELSE LET r == applyOperator(outputQueue, Top(operatorStack))
         IN  IF r.ok THEN PrecedenceLoop(r.outputQueue, Pop(operatorStack), op1) ELSE r

\* IsUnaryMinus taking a '-' after a Comma for a unary minus as well
IsUnaryMinus_AfterComma(token, lastToken) ==
    /\ token.value = <<"-">>
    /\ \/ lastToken = Null
       \/ lastToken.type = "Operator"
       \/ lastToken.type = "LeftParen"
       \/ lastToken.type = "Comma"

\* whether case 'Operator' takes the token for a unary minus
IsUnaryMinus(token, lastToken) ==
    /\ token.value = <<"-">>
    /\ \/ lastToken = Null
       \/ lastToken.type = "Operator"
       \/ lastToken.type = "LeftParen"

\* the while loop of case 'RightParen'
RECURSIVE ReduceToLeftParen(_, _)
ReduceToLeftParen(outputQueue, operatorStack) ==
    IF Len(operatorStack) > 0 /\ Top(operatorStack).type # "LeftParen"
    THEN LET r == applyOperator(outputQueue, Top(operatorStack))
         IN  IF r.ok THEN ReduceToLeftParen(r.outputQueue, Pop(operatorStack)) ELSE r
    ELSE [ok |-> TRUE, outputQueue |-> outputQueue, operatorStack |-> operatorStack]

RightParenCase(outputQueue, operatorStack) ==
    LET r == ReduceToLeftParen(outputQueue, operatorStack)
    IN  IF ~r.ok THEN r
        ELSE IF Len(r.operatorStack) = 0
        THEN Fail("Syntax Error: Mismatched parentheses.", << >>)
        ELSE LET stack == Pop(r.operatorStack)
             IN  IF Len(stack) > 0 /\ Top(stack).type = "Identifier"
                 THEN LET f == applyOperator(r.outputQueue, Top(stack))
                      IN  IF f.ok
                          THEN [ok |-> TRUE, outputQueue |-> f.outputQueue,
                                operatorStack |-> Pop(stack)]
                          ELSE f
                 ELSE [ok |-> TRUE, outputQueue |-> r.outputQueue, operatorStack |-> stack]

\* the two checks at the head of the loop body; NoError when both pass
SyntaxValidation(token, lastToken) ==
    IF /\ token.type \in {"Number", "Identifier"}
       /\ lastToken # Null
       /\ lastToken.type \in {"Number", "Identifier"}
    THEN [message |-> "Syntax Error: Unexpected token after", about |-> <<token.value, lastToken.value>>]
    ELSE IF token.type = "Operator" /\ lastToken # Null /\ lastToken.type = "Operator"
    THEN [message |-> "Syntax Error: Operator cannot follow operator",
          about |-> <<token.value, lastToken.value>>]
    ELSE NoError

\* the switch of the loop body
SwitchCase(outputQueue, operatorStack, token, lastToken) ==
    CASE token.type = "Number" ->
            [ok |-> TRUE, outputQueue |-> Append(outputQueue, Constant(parseFloat(token.value))),
             operatorStack |-> operatorStack]
      [] token.type = "Identifier" ->
            IF Truthy(FUNCTIONS, token.value)
            THEN [ok |-> TRUE, outputQueue |-> outputQueue,
                  operatorStack |-> Append(operatorStack, token)]
            ELSE IF Truthy(CONSTANTS_TABLE, token.value) \/ token.value = S_z
            THEN [ok |-> TRUE, outputQueue |-> Append(outputQueue, Variable(token.value)),
                  operatorStack |-> operatorStack]
            ELSE Fail("Syntax Error: Unknown identifier", token.value)
      [] token.type = "Operator" ->
            IF IsUnaryMinus(token, lastToken)
            THEN [ok |-> TRUE, outputQueue |-> outputQueue,
                  operatorStack |-> Append(operatorStack, UnaryMinusMarker)]
            ELSE LET r == PrecedenceLoop(outputQueue, operatorStack, token.value)
                 IN  IF r.ok
                     THEN [ok |-> TRUE, outputQueue |-> r.outputQueue,
                           operatorStack |-> Append(r.operatorStack, token)]
                     ELSE r
      [] token.type = "LeftParen" ->
            [ok |-> TRUE, outputQueue |-> outputQueue,
             operatorStack |-> Append(operatorStack, token)]
      [] token.type = "RightParen" -> RightParenCase(outputQueue, operatorStack)
      [] token.type = "Comma" ->
            [ok |-> TRUE, outputQueue |-> outputQueue, operatorStack |-> operatorStack]

\* parseTokens' locals before the loop
ParserStart ==
    [pos |-> 1, outputQueue |-> << >>, operatorStack |-> << >>, lastToken |-> Null,
     status |-> "running", error |-> NoError, result |-> Null]

ParserThrew(p, err) == [p EXCEPT !.status = "threw", !.error = err]

\* one iteration of for (const token of tokens)
ProcessToken(p, token) ==
    LET bad == SyntaxValidation(token, p.lastToken)
    IN  IF bad # NoError THEN ParserThrew(p, bad)
        ELSE LET r == SwitchCase(p.outputQueue, p.operatorStack, token, p.lastToken)
             IN  IF ~r.ok THEN ParserThrew(p, r.error)
                 ELSE [p EXCEPT !.pos = p.pos + 1, !.outputQueue = r.outputQueue,
                                !.operatorStack = r.operatorStack, !.lastToken = token]

\* DrainStack dropping a remaining LeftParen instead of throwing
RECURSIVE DrainStack_SkipsLeftParen(_, _)
DrainStack_SkipsLeftParen(outputQueue, operatorStack) ==
    IF Len(operatorStack) = 0
    THEN [ok |-> TRUE, outputQueue |-> outputQueue, operatorStack |-> operatorStack]
    ELSE IF Top(operatorStack).type = "LeftParen"
    THEN DrainStack_SkipsLeftParen(outputQueue, Pop(operatorStack))
    ELSE LET r == applyOperator(outputQueue, Top(operatorStack))
         IN  IF r.ok THEN DrainStack_SkipsLeftParen(r.outputQueue, Pop(operatorStack)) ELSE r

\* the while loop after the for loop
RECURSIVE DrainStack(_, _)
DrainStack(outputQueue, operatorStack) ==
    IF Len(operatorStack) = 0
    THEN [ok |-> TRUE, outputQueue |-> outputQueue, operatorStack |-> operatorStack]
    ELSE IF Top(operatorStack).type = "LeftParen"
    THEN Fail("Syntax Error: Mismatched parentheses.", << >>)
    ELSE LET r == applyOperator(outputQueue, Top(operatorStack))
         IN  IF r.ok THEN DrainStack(r.outputQueue, Pop(operatorStack)) ELSE r

\* the structure check on the drained stacks r; InvalidStructure when it throws
InvalidStructure ==
    [message |-> "Syntax Error: Invalid expression structure.", about |-> << >>]

\* StructureCheck accepting any non-empty output queue and returning its first node
StructureCheck_AtLeastOne(p, r) ==
    LET drained == [p EXCEPT !.outputQueue = r.outputQueue, !.operatorStack = r.operatorStack]
    IN  IF Len(r.outputQueue) < 1 THEN ParserThrew(drained, InvalidStructure)
        ELSE [drained EXCEPT !.status = "returned", !.result = r.outputQueue[1]]

\* if (outputQueue.length !== 1) throw ...; return outputQueue[0]
StructureCheck(p, r) ==
    LET drained == [p EXCEPT !.outputQueue = r.outputQueue, !.operatorStack = r.operatorStack]
    IN  IF Len(r.outputQueue) # 1 THEN ParserThrew(drained, InvalidStructure)
        ELSE [drained EXCEPT !.status = "returned", !.result = r.outputQueue[1]]

\* the drained stacks r checked, or the error the drain threw
AfterDrain(p, r) == IF ~r.ok THEN ParserThrew(p, r.error) ELSE StructureCheck(p, r)

\* everything after the for loop
FinishParse(p) == AfterDrain(p, DrainStack(p.outputQueue, p.operatorStack))

RECURSIVE RunParser(_, _)
RunParser(p, toks) ==
    IF p.status # "running" THEN p
    ELSE IF p.pos > Len(toks) THEN FinishParse(p)
    ELSE RunParser(ProcessToken(p, toks[p.pos]), toks)

parseTokens(toks) == RunParser(ParserStart, toks)

(***************************************************************************)
(* Generated code.  A code generator's output is kept as the expression     *)
(* tree of the text it writes (a call with its callee's name, a numeric     *)
(* literal with its text, an identifier); Render is the text itself.        *)
(***************************************************************************)
Call(callee, args) == [code |-> "call", callee |-> callee, args |-> args]
Literal(text, v) == [code |-> "literal", text |-> text, value |-> v]
Ident(name) == [code |-> "identifier", name |-> name]

RECURSIVE Render(_)
RECURSIVE RenderArgs(_)
Render(node) ==
    CASE node.code = "call" -> node.callee \o "(" \o RenderArgs(node.args) \o ")"
      [] node.code = "literal" -> node.text
      [] node.code = "identifier" -> node.name
RenderArgs(args) ==
    IF args = << >> THEN ""
    ELSE IF Len(args) = 1 THEN Render(args[1])
    ELSE Render(args[1]) \o ", " \o RenderArgs(Tail(args))

\* the number of decimal digits of n >= 0
RECURSIVE NumDigits(_)
NumDigits(n) == IF n < 10 THEN 1 ELSE 1 + NumDigits(n \div 10)

RECURSIVE Zeros(_)
Zeros(n) == IF n <= 0 THEN "" ELSE "0" \o Zeros(n - 1)

\* the e fraction digits of mantissa / 10^e
FractionDigits(m, e) ==
    LET f == m % Pow10(e) IN IF f = 0 THEN Zeros(e) ELSE Zeros(e - NumDigits(f)) \o ToString(f)

\* Number.prototype.toString of a parsed literal (below 1e21 and with few digits)
NumberToString(v) ==
    IF v.kind = "Infinity" THEN "Infinity"
    ELSE IF v.exponent = 0 THEN ToString(v.mantissa)
    ELSE ToString(v.mantissa \div Pow10(v.exponent)) \o "." \o FractionDigits(v.mantissa, v.exponent)

\* value.toPrecision(15) of a parsed literal (at most 15 significant digits)
toPrecision15(v) ==
    IF v.kind = "Infinity" THEN "Infinity"
    ELSE LET whole == v.mantissa \div Pow10(v.exponent)
             significant == IF v.mantissa = 0 THEN 1
                            ELSE IF whole = 0 THEN NumDigits(v.mantissa)
                            ELSE NumDigits(whole) + v.exponent
         IN  ToString(whole) \o "." \o FractionDigits(v.mantissa, v.exponent)
                 \o Zeros(15 - significant)

\* the text and value of Math.PI and Math.E, which stay symbolic
MathPI == [kind |-> "Math.PI"]
MathE == [kind |-> "Math.E"]

\* the Complex value of a constant and the expression tree of its glsl text
ConstantValue(name) ==
    CASE name = S_pi -> [re |-> Literal("3.141592653589793", MathPI), im |-> Literal("0", Num(0, 0))]
      [] name = S_e -> [re |-> Literal("2.718281828459045", MathE), im |-> Literal("0", Num(0, 0))]
      [] name = S_i -> [re |-> Literal("0", Num(0, 0)), im |-> Literal("1", Num(1, 0))]

ConstantGlsl(name) ==
    CASE name = S_pi -> Call("vec2", <<Literal("3.141592653589793", MathPI), Literal("0.0", Num(0, 0))>>)
      [] name = S_e -> Call("vec2", <<Literal("2.718281828459045", MathE), Literal("0.0", Num(0, 0))>>)
      [] name = S_i -> Call("vec2", <<Literal("0.0", Num(0, 0)), Literal("1.0", Num(1, 0))>>)

\* funcInfo.glsl: the template text of an undefined property is "undefined"
GlslName(table, name) == IF HasOwn(table, name) THEN table[name].glsl ELSE "undefined"

RECURSIVE generateGlslNode(_)
RECURSIVE generateGlslArgs(_)
generateGlslNode(node) ==
    CASE node.type = "Constant" ->
            Call("vec2", <<Literal(toPrecision15(node.value), node.value), Literal("0.0", Num(0, 0))>>)
      [] node.type = "Variable" ->
            IF Truthy(CONSTANTS_TABLE, node.name)
            THEN IF HasOwn(CONSTANTS_TABLE, node.name) THEN ConstantGlsl(node.name)
                 ELSE Ident("undefined")
            ELSE Ident("z")
      [] node.type = "BinaryOperation" ->
            Call(GlslName(OPERATORS, node.operator),
                 <<generateGlslNode(node.left), generateGlslNode(node.right)>>)
      [] node.type = "FunctionCall" ->
            Call(GlslName(FUNCTIONS, node.functionName), generateGlslArgs(node.args))
      [] node.type = "UnaryMinus" ->
            Call("c_mul", <<Call("vec2", <<Literal("-1.0", Num(-1, 0)), Literal("0.0", Num(0, 0))>>),
                            generateGlslNode(node.operand)>>)
generateGlslArgs(args) ==
    IF args = << >> THEN << >>
    ELSE <<generateGlslNode(Head(args))>> \o generateGlslArgs(Tail(args))

generateGlsl(tree) ==
    "vec2 F_Z(vec2 z) {\n    return " \o Render(generateGlslNode(tree)) \o ";\n}"

\* reading .name of an undefined js property
TypeError == [message |-> "TypeError: Cannot read properties of undefined (reading 'name')",
              about |-> << >>]

\* [ok |-> TRUE, code |-> tree], or [ok |-> FALSE, error |-> TypeError] when
\* FUNCTIONS[node.functionName].js is undefined
RECURSIVE generateJsNode(_)
RECURSIVE generateJsArgs(_)
generateJsNode(node) ==
    CASE node.type = "Constant" ->
            [ok |-> TRUE, code |-> Call("new Complex",
                <<Literal(NumberToString(node.value), node.value), Literal("0", Num(0, 0))>>)]
      [] node.type = "Variable" ->
            IF Truthy(CONSTANTS_TABLE, node.name)
            THEN IF HasOwn(CONSTANTS_TABLE, node.name)
                 THEN [ok |-> TRUE, code |-> Call("new Complex",
                         <<ConstantValue(node.name).re, ConstantValue(node.name).im>>)]
                 ELSE [ok |-> FALSE, error |-> TypeError]
            ELSE [ok |-> TRUE, code |-> Ident("z")]
      [] node.type = "BinaryOperation" ->
            LET left == generateJsNode(node.left)
                right == generateJsNode(node.right)
            IN  IF ~left.ok THEN left
                ELSE IF ~right.ok THEN right
                ELSE [ok |-> TRUE, code |-> Call("Complex." \o OPERATORS[node.operator].js,
                                                 <<left.code, right.code>>)]
      [] node.type = "FunctionCall" ->
            LET args == generateJsArgs(node.args)
            IN  IF ~args.ok THEN args
                ELSE IF ~HasOwn(FUNCTIONS, node.functionName)
                THEN [ok |-> FALSE, error |-> TypeError]
                ELSE [ok |-> TRUE, code |-> Call("Complex." \o FUNCTIONS[node.functionName].js,
                                                 args.code)]
      [] node.type = "UnaryMinus" ->
            LET operand == generateJsNode(node.operand)
            IN  IF ~operand.ok THEN operand
                ELSE [ok |-> TRUE, code |-> Call("Complex.mul",
                        <<Call("new Complex", <<Literal("-1", Num(-1, 0)), Literal("0", Num(0, 0))>>),
                          operand.code>>)]
generateJsArgs(args) ==
    IF args = << >> THEN [ok |-> TRUE, code |-> << >>]
    ELSE LET first == generateJsNode(Head(args))
             rest == generateJsArgs(Tail(args))
         IN  IF ~first.ok THEN first
             ELSE IF ~rest.ok THEN rest
             ELSE [ok |-> TRUE, code |-> <<first.code>> \o rest.code]

generateJs(tree) == generateJsNode(tree)

(***************************************************************************)
(* Complex arithmetic.  A component is a decimal Num(m, e), exact as long   *)
(* as the double arithmetic is (small integers and short decimals), the     *)
(* Infinity of a zero divisor (and what IEEE arithmetic makes of it: an     *)
(* infinity of either sign, or NaN), or Inexact: a value the model does not *)
(* compute (a rounded or transcendental result).                            *)
(***************************************************************************)
Inexact == [kind |-> "inexact"]

NegInfinity == [kind |-> "-Infinity"]

IsInfinite(a) == a.kind \in {"Infinity", "-Infinity"}

\* the sign of a number or an infinity
Sign(a) ==
    IF a.kind = "number"
    THEN IF a.mantissa > 0 THEN 1 ELSE IF a.mantissa < 0 THEN -1 ELSE 0
    ELSE IF a.kind = "Infinity" THEN 1 ELSE -1

SignedInfinity(sign) == IF sign > 0 THEN Infinity ELSE NegInfinity

\* beyond this magnitude a result is left Inexact
ExactLimit == 1000000

IsNum(a) == a.kind = "number"

Max(a, b) == IF a >= b THEN a ELSE b
Abs(a) == IF a >= 0 THEN a ELSE 0 - a

Exactly(m, e) == IF Abs(m) > ExactLimit \/ e > 6 THEN Inexact ELSE Normalize(m, e)

FAdd(a, b) ==
    IF a = NaN \/ b = NaN THEN NaN
    ELSE IF IsNum(a) /\ IsNum(b)
    THEN LET e == Max(a.exponent, b.exponent)
         IN  Exactly(a.mantissa * Pow10(e - a.exponent) + b.mantissa * Pow10(e - b.exponent), e)
    ELSE IF IsInfinite(a) /\ IsInfinite(b) THEN (IF a = b THEN a ELSE NaN)
    ELSE IF IsInfinite(a) /\ IsNum(b) THEN a
    ELSE IF IsNum(a) /\ IsInfinite(b) THEN b
    ELSE Inexact

FNeg(a) ==
    IF IsNum(a) THEN Num(0 - a.mantissa, a.exponent)
    ELSE IF a = Infinity THEN NegInfinity
    ELSE IF a = NegInfinity THEN Infinity
    ELSE a

FSub(a, b) == FAdd(a, FNeg(b))

FMul(a, b) ==
    IF a = NaN \/ b = NaN THEN NaN
    ELSE IF IsNum(a) /\ IsNum(b)
    THEN Exactly(a.mantissa * b.mantissa, a.exponent + b.exponent)
    ELSE IF a = Inexact \/ b = Inexact THEN Inexact
    ELSE IF Sign(a) * Sign(b) = 0 THEN NaN
    ELSE SignedInfinity(Sign(a) * Sign(b))

\* a / b where the quotient of the mantissas is whole
FDiv(a, b) ==
    IF a = NaN \/ b = NaN THEN NaN
    ELSE IF IsNum(a) /\ IsNum(b) /\ b.mantissa # 0 /\ a.exponent >= b.exponent
       /\ a.mantissa % Abs(b.mantissa) = 0
    THEN Exactly((a.mantissa \div Abs(b.mantissa)) * (IF b.mantissa < 0 THEN -1 ELSE 1),
                 a.exponent - b.exponent)
    ELSE Inexact

IsZero(a) == IsNum(a) /\ a.mantissa = 0

\* base^n for whole base >= 1 and n >= 0, or -1 beyond ExactLimit
RECURSIVE WholePower(_, _)
WholePower(base, n) ==
    IF n = 0 THEN 1
    ELSE IF n > 20 THEN -1
    ELSE LET r == WholePower(base, n - 1)
         IN  IF r = -1 \/ r * base > ExactLimit THEN -1 ELSE r * base

Complex(re, im) == [re |-> re, im |-> im]

InexactComplex == Complex(Inexact, Inexact)

ComplexAdd(a, b) == Complex(FAdd(a.re, b.re), FAdd(a.im, b.im))
ComplexSub(a, b) == Complex(FSub(a.re, b.re), FSub(a.im, b.im))
ComplexMul(a, b) ==
    Complex(FSub(FMul(a.re, b.re), FMul(a.im, b.im)), FAdd(FMul(a.re, b.im), FMul(a.im, b.re)))
ComplexInv(z) ==
    LET d == FAdd(FMul(z.re, z.re), FMul(z.im, z.im))
    IN  IF IsZero(d) THEN Complex(Infinity, Infinity)
        ELSE Complex(FDiv(z.re, d), FDiv(FNeg(z.im), d))
ComplexDiv(a, b) == ComplexMul(a, ComplexInv(b))

\* The polar formula is exact for a positive whole base and a whole exponent
\* n >= 0 on the real axis: r is the base, theta is 0, newAngle is 0 and newMag
\* is Math.pow(r, n) * Math.exp(-0).
ComplexPow(z, p) ==
    IF IsZero(z.re) /\ IsZero(z.im) THEN Complex(Num(0, 0), Num(0, 0))
    ELSE IF /\ IsNum(z.re) /\ IsZero(z.im) /\ z.re.exponent = 0 /\ z.re.mantissa > 0
            /\ IsNum(p.re) /\ IsZero(p.im) /\ p.re.exponent = 0 /\ p.re.mantissa >= 0
            /\ WholePower(z.re.mantissa, p.re.mantissa) # -1
    THEN Complex(Num(WholePower(z.re.mantissa, p.re.mantissa), 0), Num(0, 0))
    ELSE InexactComplex

\* the Complex static method a generated call names
ComplexMethod(callee, args) ==
    CASE callee = "Complex.add" -> ComplexAdd(args[1], args[2])
      [] callee = "Complex.sub" -> ComplexSub(args[1], args[2])
      [] callee = "Complex.mul" -> ComplexMul(args[1], args[2])
      [] callee = "Complex.div" -> ComplexDiv(args[1], args[2])
      [] callee = "Complex.pow" -> ComplexPow(args[1], args[2])
      [] OTHER -> InexactComplex

\* the literal's value as a double: Math.PI and Math.E are not computed with
LiteralValue(lit) == IF lit.value.kind \in {"number", "Infinity"} THEN lit.value ELSE Inexact

\* running the function new Function('z', 'Complex', `return ${jsCode}`) on z
RECURSIVE RunJs(_, _)
RECURSIVE RunJsArgs(_, _)
RunJs(code, z) ==
    CASE code.code = "identifier" -> z
      [] code.code = "call" /\ code.callee = "new Complex" ->
            Complex(LiteralValue(code.args[1]), LiteralValue(code.args[2]))
      [] code.code = "call" /\ code.callee # "new Complex" ->
            ComplexMethod(code.callee, RunJsArgs(code.args, z))
RunJsArgs(args, z) ==
    IF args = << >> THEN << >> ELSE <<RunJs(Head(args), z)>> \o RunJsArgs(Tail(args), z)

(***************************************************************************)
(* The Expression facade.  jsFunction is the expression tree of the text    *)
(* the function was compiled from; the field's initial arrow function       *)
(* (z) => z is the tree of z.                                               *)
(***************************************************************************)
FieldDefaults ==
    [ast |-> Null, jsFunction |-> Ident("z"), outcome |-> "none", error |-> NoError]

\* StoreFunction with lines 35 and 38 in the other order: the JavaScript text
\* is generated from the AST stored before the call
StoreFunction_FromPreviousAst(e, tree, jsCode) ==
    IF e.ast = Null
    THEN [ast |-> tree, jsFunction |-> Ident("z"), outcome |-> "returned", error |-> NoError]
    ELSE IF ~generateJs(e.ast).ok
    THEN [e EXCEPT !.ast = tree, !.outcome = "threw", !.error = generateJs(e.ast).error]
    ELSE [ast |-> tree, jsFunction |-> generateJs(e.ast).code,
          outcome |-> "returned", error |-> NoError]

\* line 41: the function is stored once the JavaScript text has been generated;
\* when generateJs throws, the AST of line 35 is already stored
StoreFunction(e, tree, jsCode) ==
    IF ~jsCode.ok
    THEN [e EXCEPT !.ast = tree, !.outcome = "threw", !.error = jsCode.error]
    ELSE [ast |-> tree, jsFunction |-> jsCode.code, outcome |-> "returned", error |-> NoError]

\* line 35: this.ast = parseTokens(tokens), then lines 38-41
StoreAst(e, p) ==
    IF p.status = "threw" THEN [e EXCEPT !.outcome = "threw", !.error = p.error]
    ELSE StoreFunction(e, p.result, generateJs(p.result))

\* line 34: const tokens = tokenize(source), then the rest
ParseTokenized(e, t) ==
    IF t.status = "threw" THEN [e EXCEPT !.outcome = "threw", !.error = t.error]
    ELSE StoreAst(e, parseTokens(t.tokens))

\* Expression.parse on the fields e: the fields after the call, and how it ended
ExpressionParse(e, source) == ParseTokenized(e, tokenize(source))

\* Expression.evaluate and Expression.getGlslCode on the fields
evaluate(fn, z) == RunJs(fn, z)

getGlslCode(tree) ==
    IF tree = Null THEN "vec2 F_Z(vec2 z) { return z; }" ELSE generateGlsl(tree)

(***************************************************************************)
(* Inputs.  A source is written as the sequence of its lexemes and joined   *)
(* into one string.                                                         *)
(***************************************************************************)
Src(lexemes) == Concat(lexemes)

\* the token array tokenize returns for a source it accepts
Toks(source) == tokenize(source).tokens

BinaryOperatorLexemes == {<<"+">>, <<"-">>, <<"*">>, <<"/">>, <<"^">>}
OperandLexemes == {<<"2">>, <<"3">>, <<"4">>, S_z}

\* a op1 b op2 c
BinaryChains ==
    {Src(<<a, o1, b, o2, c>>) : a \in OperandLexemes, o1 \in BinaryOperatorLexemes,
        b \in OperandLexemes, o2 \in BinaryOperatorLexemes, c \in OperandLexemes}

\* -a op b
NegatedOperations ==
    {Src(<<<<"-">>, a, o, b>>) : a \in {<<"2">>, S_z}, o \in BinaryOperatorLexemes,
        b \in {<<"2">>, <<"3">>}}

\* pow(a,-b)
PowOfNegated ==
    {Src(<<S_pow, <<"(">>, a, <<",", "-">>, b, <<")">>>>) :
        a \in OperandLexemes, b \in OperandLexemes}

\* a op -b
OperationsOnNegated ==
    {Src(<<a, o, <<"-">>, b>>) : a \in {<<"2">>, S_z}, o \in BinaryOperatorLexemes,
        b \in {<<"3">>, S_z}}

Src_z == S_z
Src_w == S_w
Src_negZ == <<"-", "z">>
Src_parenNegZ == <<"(", "-", "z", ")">>
Src_pow2 == Src(<<S_pow, <<"(", "2", ")">>>>)
Src_3commaPow2 == Src(<<<<"3", ",">>, S_pow, <<"(", "2", ")">>>>)
Src_paren3Pow2 == Src(<<<<"(", "3", ")">>, S_pow, <<"(", "2", ")">>>>)
Src_pow32 == Src(<<S_pow, <<"(", "3", ",", "2", ")">>>>)
Src_powNeg == Src(<<S_pow, <<"(", "z", ",", "-", "2", ")">>>>)
Src_sinZ == Src(<<S_sin, <<"(", "z", ")">>>>)
Src_sin12 == Src(<<S_sin, <<"(", "1", ",", "2", ")">>>>)
Src_2commaSin == Src(<<<<"2", ",">>, S_sin>>)
Src_paren2Sin == Src(<<<<"(", "2", ")">>, S_sin>>)
Src_sin == S_sin
Src_valueOfZ == Src(<<S_valueOf, <<"(", "z", ")">>>>)
Src_iSquared == <<"i", "^", "2">>
Src_zOver0 == <<"z", "/", "0">>
Src_half == <<"2", ".", "5", "0", "*", "z">>
Src_unbalanced == <<"(", "z">>
Src_blank == <<" ">>
Src_empty == << >>
Src_dollar == <<"2", "$", "+", "3">>
Src_spaced == <<"2", " ", "+", " ", "3">>

NamedSources ==
    {Src_z, Src_w, Src_negZ, Src_parenNegZ, Src_pow2, Src_3commaPow2, Src_paren3Pow2,
     Src_pow32, Src_powNeg, Src_sinZ, Src_sin12, Src_2commaSin, Src_paren2Sin, Src_sin,
     Src_valueOfZ, Src_iSquared, Src_zOver0, Src_half, Src_unbalanced, Src_blank,
     Src_empty, Src_dollar, Src_spaced}

(***************************************************************************)
(* tokenize as a state machine: one call on an arbitrary short string.      *)
(***************************************************************************)
InputAlphabet == {"z", "2", ".", "+", "(", ",", "$", " "}

InputStrings == SeqsUpTo(InputAlphabet, MaxInputLen)

Pending == [status |-> "pending"]

\* new Expression() and new Expression(source)
NoSource == [given |-> FALSE]
Given(source) == [given |-> TRUE, source |-> source]

\* no Expression has been constructed
NoCalls == [constructorArg |-> NoSource, parseCalled |-> FALSE, repeated |-> FALSE]

TokenizerIdle == input = << >> /\ tokenized = Pending
ParserIdle == tokens = << >> /\ parser = ParserStart
ExpressionIdle ==
    /\ ast = Null /\ jsFunction = Null /\ lastSource = << >> /\ lastOutcome = "none"
    /\ lastError = NoError /\ compiledSource = << >> /\ calls = NoCalls
NotComputed == [method |-> "none", value |-> Null]
ComplexIdle == operands = Null /\ computed = NotComputed
AppIdle == app = Null

InitTokenizer ==
    /\ input \in InputStrings
    /\ tokenized = Pending
    /\ ParserIdle
    /\ ExpressionIdle
    /\ ComplexIdle
    /\ AppIdle

Tokenize ==
    /\ tokenized = Pending
    /\ tokenized' = tokenize(input)
    /\ UNCHANGED <<input, parserVars, expressionVars, complexVars, appVars>>

NextTokenizer == Tokenize

SpecTokenizer == InitTokenizer /\ [][NextTokenizer]_vars

(***************************************************************************)
(* parseTokens as a state machine: one step per loop iteration, and one for *)
(* the code after the loop.                                                 *)
(***************************************************************************)
TokenLexemes ==
    {<<"2">>, <<"3">>, S_z, S_sin, S_pow, S_w, S_valueOf,
     <<"(">>, <<")">>, <<",">>} \cup BinaryOperatorLexemes

TokenAlphabet == {ClassifyLexeme(l) : l \in TokenLexemes}

AcceptedSources(S) == {s \in S : tokenize(s).status = "returned"}

TokenArrays ==
    SeqsUpTo(TokenAlphabet, MaxTokens)
        \cup {Toks(s) : s \in AcceptedSources(
                BinaryChains \cup NegatedOperations \cup OperationsOnNegated
                    \cup PowOfNegated \cup NamedSources)}

InitParser ==
    /\ tokens \in TokenArrays
    /\ parser = ParserStart
    /\ TokenizerIdle
    /\ ExpressionIdle
    /\ ComplexIdle
    /\ AppIdle

ParseStep ==
    /\ parser.status = "running"
    /\ parser.pos <= Len(tokens)
    /\ parser' = ProcessToken(parser, tokens[parser.pos])
    /\ UNCHANGED <<tokens, tokenizerVars, expressionVars, complexVars, appVars>>

ParseFinish ==
    /\ parser.status = "running"
    /\ parser.pos > Len(tokens)
    /\ parser' = FinishParse(parser)
    /\ UNCHANGED <<tokens, tokenizerVars, expressionVars, complexVars, appVars>>

NextParser == ParseStep \/ ParseFinish

SpecParser == InitParser /\ [][NextParser]_vars

(***************************************************************************)
(* The Complex static methods as a state machine: one call on two operands. *)
(***************************************************************************)
\* largest magnitude of an operand's whole components
MaxComponent == 2

Components == {Num(n, 0) : n \in (0 - MaxComponent)..MaxComponent} \cup {Num(5, 1)}

ComplexSamples == {Complex(re, im) : re \in Components, im \in Components}

InitComplex ==
    /\ operands \in [a : ComplexSamples, b : ComplexSamples]
    /\ computed = NotComputed
    /\ TokenizerIdle
    /\ ParserIdle
    /\ ExpressionIdle
    /\ AppIdle

\* the call Complex.<method>(...) returning value
Returns(method, value) ==
    /\ computed = NotComputed
    /\ computed' = [method |-> method, value |-> value]
    /\ UNCHANGED <<operands, tokenizerVars, parserVars, expressionVars, appVars>>

Add == Returns("add", ComplexAdd(operands.a, operands.b))
Sub == Returns("sub", ComplexSub(operands.a, operands.b))
Mul == Returns("mul", ComplexMul(operands.a, operands.b))
Inv == Returns("inv", ComplexInv(operands.a))
Div == Returns("div", ComplexDiv(operands.a, operands.b))
Pow == Returns("pow", ComplexPow(operands.a, operands.b))

NextComplex == Add \/ Sub \/ Mul \/ Inv \/ Div \/ Pow

SpecComplex == InitComplex /\ [][NextComplex]_vars

(***************************************************************************)
(* The Expression object: constructed, then any sequence of parse calls.    *)
(***************************************************************************)
Sources == NamedSources \cup {<<"2", "+", "3", "*", "4">>, <<"2", "^", "3", "^", "2">>}

\* the constructor compiling "-z" when it is given no source
ConstructorSource_NegZ(arg) ==
    IF arg.given /\ arg.source # << >> THEN arg.source ELSE Src_negZ

\* new Expression(source): an absent or empty source compiles "z"; when the
\* parse throws, so does the constructor, and there is no object
ConstructorSource(arg) ==
    IF arg.given /\ arg.source # << >> THEN arg.source ELSE Src_z

\* what the constructor may be given
ConstructorArgs ==
    {NoSource} \cup {Given(source) : source \in {Src_empty, Src_z, Src_sinZ, Src_w, Src_valueOfZ}}

\* the object whose fields are e after the constructor compiled source
Constructed(source, e) ==
    /\ e.outcome = "returned"
    /\ ast = e.ast
    /\ jsFunction = e.jsFunction
    /\ lastSource = source
    /\ compiledSource = source
    /\ lastOutcome = e.outcome
    /\ lastError = e.error

Init ==
    /\ \E arg \in ConstructorArgs :
          /\ Constructed(ConstructorSource(arg),
                         ExpressionParse(FieldDefaults, ConstructorSource(arg)))
          /\ calls = [constructorArg |-> arg, parseCalled |-> FALSE, repeated |-> FALSE]
    /\ TokenizerIdle
    /\ ParserIdle
    /\ ComplexIdle
    /\ AppIdle

\* the fields e and the record of the call after parse(source) ended
ParseEnds(source, e) ==
    /\ ast' = e.ast
    /\ jsFunction' = e.jsFunction
    /\ lastSource' = source
    /\ lastOutcome' = e.outcome
    /\ lastError' = e.error
    /\ compiledSource' = IF e.outcome = "returned" THEN source ELSE compiledSource
    /\ calls' = [calls EXCEPT !.parseCalled = TRUE, !.repeated = (source = lastSource)]

Parse(source) ==
    /\ ParseEnds(source, ExpressionParse([ast |-> ast, jsFunction |-> jsFunction,
                                          outcome |-> lastOutcome, error |-> lastError], source))
    /\ UNCHANGED <<tokenizerVars, parserVars, complexVars, appVars>>

Next == \E source \in Sources : Parse(source)

Spec == Init /\ [][Next]_vars

(***************************************************************************)
(* The App: the function field with its debounced input listener, the two   *)
(* WebGL renderers and the error panel.  Time passes in ticks; a timer whose *)
(* delay has run out stays pending until the event loop runs its callback.  *)
(***************************************************************************)
\* the callee names of the calls in a generated expression
RECURSIVE Callees(_)
RECURSIVE CalleesOfArgs(_)
Callees(node) ==
    IF node.code = "call" THEN {node.callee} \cup CalleesOfArgs(node.args) ELSE {}
CalleesOfArgs(args) ==
    IF args = << >> THEN {} ELSE Callees(Head(args)) \cup CalleesOfArgs(Tail(args))

\* the identifiers a generated expression mentions outside calls
RECURSIVE Identifiers(_)
RECURSIVE IdentifiersOfArgs(_)
Identifiers(node) ==
    CASE node.code = "call" -> IdentifiersOfArgs(node.args)
      [] node.code = "identifier" -> {node.name}
      [] node.code = "literal" -> {}
IdentifiersOfArgs(args) ==
    IF args = << >> THEN {} ELSE Identifiers(Head(args)) \cup IdentifiersOfArgs(Tail(args))

\* the routines of the companion shader library
LibraryRoutines ==
    {"c_add", "c_sub", "c_mul", "c_div", "c_pow", "c_exp", "c_log", "c_sqrt",
     "c_sin", "c_cos", "c_sinh", "c_cosh", "c_inv"}

\* the texts of the numeric literals of a generated expression
RECURSIVE LiteralTexts(_)
RECURSIVE LiteralTextsOfArgs(_)
LiteralTexts(node) ==
    CASE node.code = "call" -> LiteralTextsOfArgs(node.args)
      [] node.code = "literal" -> {node.text}
      [] node.code = "identifier" -> {}
LiteralTextsOfArgs(args) ==
    IF args = << >> THEN {} ELSE LiteralTexts(Head(args)) \cup LiteralTextsOfArgs(Tail(args))

\* the delay of the input listener's setTimeout, in milliseconds
DebounceMs == 150

\* how many ticks the delay is cut into
TicksPerDelay == 3

TickMs == DebounceMs \div TicksPerDelay

\* how many input events a behaviour has
MaxEdits == 3

Min(a, b) == IF a <= b THEN a ELSE b

\* what the user may type into the function field
FieldTexts == {Src_z, Src_sinZ, S_Infinity, Src_unbalanced}

\* expression.getGlslCode(): the text, and the expression it returns as a tree
GlslCode(tree) ==
    [text |-> getGlslCode(tree),
     body |-> IF tree = Null THEN Ident("z") ELSE generateGlslNode(tree)]

\* gl.getShaderParameter(shader, gl.COMPILE_STATUS) for the fragment shader with
\* the function in it: the body may call the library's routines and vec2, name
\* z, and write numbers; Infinity and NaN are no GLSL literals
CompileStatus(glsl) ==
    /\ Callees(glsl.body) \subseteq LibraryRoutines \cup {"vec2"}
    /\ Identifiers(glsl.body) \subseteq {"z"}
    /\ LiteralTexts(glsl.body) \cap {"Infinity", "NaN"} = {}

\* WebGLRenderer.compileShader for the fragment shader: the shader, or null
compileShader(glsl) == IF CompileStatus(glsl) THEN [source |-> glsl.text] ELSE Null

\* WebGLRenderer.createProgram: null when a shader is null, else the program
\* linked from the base vertex shader and the fragment shader
createProgram(glsl) ==
    IF compileShader(glsl) = Null THEN Null ELSE [function |-> compileShader(glsl).source]

\* WebGLRenderer.updateFunctionShader: this.program after the call
updateFunctionShader(program, glsl) == createProgram(glsl)

\* WebGLRenderer.draw: what the canvas shows after the call
draw(program, canvas) == IF program = Null THEN canvas ELSE program

\* what draw does: it renders, or logs 'Cannot draw' and returns
DrawCall(program) == IF program = Null THEN "Cannot draw" ELSE "draw"

\* App.updateAndRedraw after expression.parse returned and getGlslCode gave glsl
ShadersUpdated(a, glsl) ==
    [a EXCEPT !.finiteProgram = updateFunctionShader(a.finiteProgram, glsl),
              !.infinityProgram = updateFunctionShader(a.infinityProgram, glsl),
              !.errorPanel = Null,
              !.finiteCanvas = draw(updateFunctionShader(a.finiteProgram, glsl), a.finiteCanvas),
              !.infinityCanvas =
                  draw(updateFunctionShader(a.infinityProgram, glsl), a.infinityCanvas),
              !.log = <<[call |-> "updateFunctionShader", glsl |-> glsl.text],
                        [call |-> "updateFunctionShader", glsl |-> glsl.text],
                        [call |-> "clearError"],
                        [call |-> DrawCall(updateFunctionShader(a.finiteProgram, glsl))],
                        [call |-> DrawCall(updateFunctionShader(a.infinityProgram, glsl))]>>]

\* App.updateAndRedraw, e being the expression's fields after parse(funcStr)
updateAndRedraw(a, e) ==
    IF e.outcome = "threw"
    THEN [a EXCEPT !.errorPanel = e.error,
                   !.log = <<[call |-> "displayError", message |-> e.error]>>]
    ELSE ShadersUpdated(a, GlslCode(e.ast))

\* this.debounceTimeout before the first setTimeout: undefined, the id of no
\* timer (setTimeout returns positive ids)
NoTimer == 0

\* the App before its constructor calls updateAndRedraw
AppStart(text) ==
    [funcInput |-> text, debounceTimeout |-> NoTimer, timers |-> {}, nextTimerId |-> 1,
     finiteProgram |-> Null, infinityProgram |-> Null,
     finiteCanvas |-> Null, infinityCanvas |-> Null,
     errorPanel |-> Null, log |-> << >>,
     elapsed |-> 0, edits |-> 0, bursts |-> 0, runs |-> 0, awaiting |-> FALSE]

\* new App(): new Expression() compiles "z" into e0, and updateAndRedraw
\* compiles the field's text into e
AppConstructed(text, e0, e) ==
    /\ e0.outcome = "returned"
    /\ ast = e.ast
    /\ jsFunction = e.jsFunction
    /\ lastSource = text
    /\ lastOutcome = e.outcome
    /\ lastError = e.error
    /\ compiledSource = IF e.outcome = "returned" THEN text ELSE Src_z
    /\ calls = [constructorArg |-> NoSource, parseCalled |-> TRUE, repeated |-> (text = Src_z)]
    /\ app = updateAndRedraw(AppStart(text), e)

\* the field holds the default function "z" when the page is loaded
InitApp ==
    /\ AppConstructed(Src_z, ExpressionParse(FieldDefaults, Src_z),
                      ExpressionParse(ExpressionParse(FieldDefaults, Src_z), Src_z))
    /\ TokenizerIdle
    /\ ParserIdle
    /\ ComplexIdle

\* the input listener that does not clear the pending timer
InputListener_KeepsTimer(a) ==
    [a EXCEPT !.timers = a.timers \cup {[id |-> a.nextTimerId, remaining |-> DebounceMs]},
              !.debounceTimeout = a.nextTimerId,
              !.nextTimerId = a.nextTimerId + 1]

\* the input listener: clearTimeout(this.debounceTimeout), then
\* this.debounceTimeout = setTimeout(() => this.updateAndRedraw(), 150)
InputListener(a) ==
    [a EXCEPT !.timers = {t \in a.timers : t.id # a.debounceTimeout}
                             \cup {[id |-> a.nextTimerId, remaining |-> DebounceMs]},
              !.debounceTimeout = a.nextTimerId,
              !.nextTimerId = a.nextTimerId + 1]

\* the user edits the field to text: the 'input' event runs the listener
InputEvent(text) ==
    /\ app.edits < MaxEdits
    /\ app' = InputListener([app EXCEPT !.funcInput = text,
                                        !.elapsed = 0,
                                        !.edits = app.edits + 1,
                                        !.bursts = IF app.awaiting THEN app.bursts
                                                   ELSE app.bursts + 1,
                                        !.awaiting = TRUE])
    /\ UNCHANGED <<tokenizerVars, parserVars, expressionVars, complexVars>>

\* a tick of time passes while a timer is running
Tick ==
    /\ \E t \in app.timers : t.remaining > 0
    /\ app' = [app EXCEPT !.timers = {[t EXCEPT !.remaining = Max(0, t.remaining - TickMs)] :
                                          t \in app.timers},
                          !.elapsed = Min(DebounceMs, app.elapsed + TickMs)]
    /\ UNCHANGED <<tokenizerVars, parserVars, expressionVars, complexVars>>

\* the callback of timer t runs updateAndRedraw, parse leaving the fields e
CallbackRuns(t, e) ==
    /\ ParseEnds(app.funcInput, e)
    /\ app' = updateAndRedraw([app EXCEPT !.timers = app.timers \ {t},
                                          !.runs = app.runs + 1,
                                          !.awaiting = FALSE], e)

\* the event loop runs the callback of a timer whose delay has run out
TimerFires ==
    /\ \E t \in app.timers :
          /\ t.remaining = 0
          /\ CallbackRuns(t, ExpressionParse([ast |-> ast, jsFunction |-> jsFunction,
                                              outcome |-> lastOutcome, error |-> lastError],
                                             app.funcInput))
    /\ UNCHANGED <<tokenizerVars, parserVars, complexVars>>

NextApp == (\E text \in FieldTexts : InputEvent(text)) \/ Tick \/ TimerFires

SpecApp == InitApp /\ [][NextApp]_vars

\* a step that is an input event, and one that runs updateAndRedraw
IsInputEvent == app'.edits # app.edits
IsTimerRun == app'.runs # app.runs

\* the delay of some timer has run out
TimerDue == \E t \in app.timers : t.remaining = 0

\* the clock advances and the event loop runs the callbacks of expired timers:
\* weak fairness of Tick and of TimerFires, the latter written out (TimerFires
\* is enabled exactly when a timer is due, and its steps are the timer runs)
SpecAppFair ==
    SpecApp /\ WF_vars(Tick) /\ ([]<>(~TimerDue) \/ []<><<IsTimerRun>>_vars)

(***************************************************************************)
(* Properties.                                                              *)
(***************************************************************************)
\* sample arguments of evaluate
SampleInputs == {Complex(Num(0, 0), Num(0, 0)), Complex(Num(3, 0), Num(-2, 0)),
                 Complex(Num(5, 1), Num(1, 0))}

Real(n) == Complex(Num(n, 0), Num(0, 0))

\* what the expression whose AST is tree evaluates to at z
ValueOf(tree, z) == evaluate(generateJs(tree).code, z)

Finished == parser.status # "running"

Two == Constant(Num(2, 0))
Three == Constant(Num(3, 0))
Four == Constant(Num(4, 0))

\* C1: a parse call that throws leaves the stored AST and the stored evaluator
\* as they were, so getGlslCode() and evaluate(z) answer as before the call.
C1_FailedParseLeavesState ==
    [][lastOutcome' = "threw" =>
          /\ ast' = ast
          /\ jsFunction' = jsFunction
          /\ getGlslCode(ast') = getGlslCode(ast)
          /\ \A z \in SampleInputs : evaluate(jsFunction', z) = evaluate(jsFunction, z)]_vars

\* C2: in every reachable state the stored AST and the stored evaluator are the
\* ones generated from the source of the latest parse call that returned.
C2_AstAndEvaluatorOfCompiledSource ==
    LET t == tokenize(compiledSource)
    IN  /\ t.status = "returned"
        /\ parseTokens(t.tokens).status = "returned"
        /\ ast = parseTokens(t.tokens).result
        /\ generateJs(parseTokens(t.tokens).result).ok
        /\ jsFunction = generateJs(parseTokens(t.tokens).result).code

\* the operand a token stands for, and the claims' ranking of the operators
IsOperandToken(t) ==
    \/ t.type = "Number"
    \/ t.type = "Identifier" /\ t.value \in {S_z, S_pi, S_e, S_i}
IsBinaryToken(t) == t.type = "Operator"
Leaf(t) == IF t.type = "Number" THEN Constant(parseFloat(t.value)) ELSE Variable(t.value)
Rank(op) ==
    CASE op \in {<<"+">>, <<"-">>} -> 1
      [] op \in {<<"*">>, <<"/">>} -> 2
      [] op = <<"^">> -> 3

\* tokens is a op1 b op2 c
IsChain ==
    /\ Len(tokens) = 5
    /\ IsOperandToken(tokens[1]) /\ IsBinaryToken(tokens[2]) /\ IsOperandToken(tokens[3])
    /\ IsBinaryToken(tokens[4]) /\ IsOperandToken(tokens[5])

GroupedRight ==
    BinaryOperation(tokens[2].value, Leaf(tokens[1]),
        BinaryOperation(tokens[4].value, Leaf(tokens[3]), Leaf(tokens[5])))
GroupedLeft ==
    BinaryOperation(tokens[4].value,
        BinaryOperation(tokens[2].value, Leaf(tokens[1]), Leaf(tokens[3])), Leaf(tokens[5]))

Toks_2plus3times4 == Toks(<<"2", "+", "3", "*", "4">>)
Toks_2pow3pow2 == Toks(<<"2", "^", "3", "^", "2">>)
Toks_2minus3minus4 == Toks(<<"2", "-", "3", "-", "4">>)
Toks_neg2pow2 == Toks(<<"-", "2", "^", "2">>)

\* C3: a lo b hi c parses to lo(a, hi(b, c)) and a hi b lo c to lo(hi(a, b), c)
\* when hi ranks above lo (^ above * / above + -); 2+3*4 evaluates to 14.
C3_PrecedenceGrouping ==
    (Finished /\ IsChain) =>
        /\ Rank(tokens[2].value) < Rank(tokens[4].value) =>
              parser.status = "returned" /\ parser.result = GroupedRight
        /\ Rank(tokens[2].value) > Rank(tokens[4].value) =>
              parser.status = "returned" /\ parser.result = GroupedLeft
        /\ tokens = Toks_2plus3times4 =>
              \A z \in SampleInputs : ValueOf(parser.result, z) = Real(14)

C3_Witness ==
    /\ tokens = Toks_2plus3times4
    /\ parser.status = "returned"
    /\ parser.result = BinaryOperation(<<"+">>, Two, BinaryOperation(<<"*">>, Three, Four))

\* C4: at equal precedence a^b^c parses to ^(a, ^(b, c)) and a op1 b op2 c,
\* both among + - or both among * /, to op2(op1(a, b), c); 2^3^2 evaluates to
\* 512 and 2-3-4 to -5.
C4_AssociativityGrouping ==
    (Finished /\ IsChain /\ Rank(tokens[2].value) = Rank(tokens[4].value)) =>
        /\ parser.status = "returned"
        /\ parser.result = IF tokens[4].value = <<"^">> THEN GroupedRight ELSE GroupedLeft
        /\ tokens = Toks_2pow3pow2 =>
              \A z \in SampleInputs : ValueOf(parser.result, z) = Real(512)
        /\ tokens = Toks_2minus3minus4 =>
              \A z \in SampleInputs : ValueOf(parser.result, z) = Real(-5)

C4_Witness ==
    /\ tokens = Toks_2pow3pow2
    /\ parser.status = "returned"
    /\ parser.result = BinaryOperation(<<"^">>, Two, BinaryOperation(<<"^">>, Three, Two))

\* C5: a '-' token right after an Operator token, a LeftParen token or the start
\* of the input is accepted and pushed as a unary-minus marker.
C5_MinusAfterOperatorIsUnary ==
    [][(/\ parser.status = "running"
        /\ parser.pos <= Len(tokens)
        /\ tokens[parser.pos] = Token("Operator", <<"-">>)
        /\ \/ parser.lastToken = Null
           \/ parser.lastToken.type \in {"Operator", "LeftParen"}
        /\ parser' # parser) =>
            /\ parser'.status = "running"
            /\ parser'.operatorStack = Append(parser.operatorStack, UnaryMinusMarker)
            /\ parser'.outputQueue = parser.outputQueue]_vars

\* C6 as claimed: -2^2 parses to UnaryMinus(^(2, 2)) and evaluates to -4.
C6_MinusAppliedToPower ==
    (Finished /\ tokens = Toks_neg2pow2) =>
        /\ parser.status = "returned"
        /\ parser.result = UnaryMinus(BinaryOperation(<<"^">>, Two, Two))
        /\ \A z \in SampleInputs : ValueOf(parser.result, z) = Real(-4)

\* C6 as amended: -2^2 parses to ^(UnaryMinus(2), 2): the leading unary minus is
\* reduced before ^ is pushed and applies to the base of the power.
C6_MinusAppliedToBase ==
    (Finished /\ tokens = Toks_neg2pow2) =>
        /\ parser.status = "returned"
        /\ parser.result = BinaryOperation(<<"^">>, UnaryMinus(Two), Two)

C6_Witness ==
    /\ tokens = Toks_neg2pow2
    /\ parser.status = "returned"
    /\ parser.result.type = "BinaryOperation"
    /\ parser.result.left.type = "UnaryMinus"

\* the token texts of a token array, joined
RECURSIVE JoinValues(_)
JoinValues(toks) == IF toks = << >> THEN << >> ELSE Head(toks).value \o JoinValues(Tail(toks))

\* C7: tokenize fails with the invalid-character error whenever a character of
\* the whitespace-stripped input is consumed by no match; when it returns, the
\* token texts joined in order are the whitespace-stripped input.
C7_NoCharacterSkipped ==
    /\ tokenized.status = "returned" =>
          JoinValues(tokenized.tokens) = StripWhitespace(input)
    /\ (/\ tokenized # Pending
        /\ Concat(MatchAll(StripWhitespace(input), 1)) # StripWhitespace(input)) =>
          /\ tokenized.status = "threw"
          /\ tokenized.error.message = "Invalid characters in function."

\* C8: tokenize fails with "Function cannot be empty." for the empty string and
\* for every whitespace-only string.
C8_BlankInputIsEmptyError ==
    (tokenized # Pending /\ \A i \in DOMAIN input : input[i] \in Whitespace) =>
        /\ tokenized.status = "threw"
        /\ tokenized.error.message = "Function cannot be empty."

\* the identifiers the claim lets through
DeclaredNames ==
    {S_sin, S_cos, S_sinh, S_cosh, S_exp, S_log, S_sqrt, S_pow, S_pi, S_e, S_i, S_z}

\* C9: an Identifier token that is no function name, constant or z makes
\* parseTokens throw 'Unknown identifier' when it is processed (unless the
\* adjacency check failed first): the loop never gets past it.
C9_UnknownIdentifierRejected ==
    \A k \in DOMAIN tokens :
        (tokens[k].type = "Identifier" /\ tokens[k].value \notin DeclaredNames) =>
            /\ parser.pos <= k
            /\ (parser.pos = k /\ parser.status = "threw") =>
                  parser.error.message \in {"Syntax Error: Unknown identifier",
                                            "Syntax Error: Unexpected token after"}

\* C10: pow(2) fails with 'Not enough arguments for function', and a call with
\* too few arguments in its own parentheses is not completed with operands
\* produced before the function name: 3,pow(2) and (3)pow(2) are rejected.
C10_TooFewArgumentsRejected ==
    Finished =>
        /\ tokens = Toks(Src_pow2) =>
              /\ parser.status = "threw"
              /\ parser.error.message = "Syntax Error: Not enough arguments for function"
        /\ tokens \in {Toks(Src_3commaPow2), Toks(Src_paren3Pow2)} =>
              parser.status = "threw"

\* C11 as claimed: parsing sin(1,2) does not fail and returns an AST.
C11_ExtraArgumentAccepted ==
    (Finished /\ tokens = Toks(Src_sin12)) => parser.status = "returned"

\* C11 as amended: parsing sin(1,2) fails with 'Invalid expression structure.':
\* the call is reduced with the last argument only, the argument beyond the
\* arity stays on the output queue, and the final structure check rejects it.
C11_ExtraArgumentLeftOver ==
    (Finished /\ tokens = Toks(Src_sin12)) =>
        /\ parser.status = "threw"
        /\ parser.error = InvalidStructure
        /\ parser.outputQueue =
              <<Constant(Num(1, 0)), FunctionCall(S_sin, <<Two>>)>>

C11_Witness ==
    /\ tokens = Toks(Src_sin12)
    /\ parser.status = "threw"
    /\ Len(parser.outputQueue) = 2
    /\ parser.outputQueue[2].type = "FunctionCall"

\* C12: for every AST parseTokens returns, generateGlsl emits the one definition
\* vec2 F_Z(vec2 z) whose body calls only routines of the shader library (and
\* the vec2 constructor) and names nothing but z.
C12_GlslCallsLibraryOnly ==
    parser.status = "returned" =>
        /\ generateGlsl(parser.result) =
              "vec2 F_Z(vec2 z) {\n    return "
                  \o Render(generateGlslNode(parser.result)) \o ";\n}"
        /\ Callees(generateGlslNode(parser.result)) \subseteq LibraryRoutines \cup {"vec2"}
        /\ Identifiers(generateGlslNode(parser.result)) \subseteq {"z"}

\* the evaluator's name for a shader routine: c_X is Complex.X
EvaluatorName(callee) ==
    CASE callee = "c_add" -> "Complex.add"
      [] callee = "c_sub" -> "Complex.sub"
      [] callee = "c_mul" -> "Complex.mul"
      [] callee = "c_div" -> "Complex.div"
      [] callee = "c_pow" -> "Complex.pow"
      [] callee = "c_sin" -> "Complex.sin"
      [] callee = "c_cos" -> "Complex.cos"
      [] callee = "c_sinh" -> "Complex.sinh"
      [] callee = "c_cosh" -> "Complex.cosh"
      [] callee = "c_exp" -> "Complex.exp"
      [] callee = "c_log" -> "Complex.log"
      [] callee = "c_sqrt" -> "Complex.sqrt"
      [] OTHER -> "none"

\* whether the shader expression g and the evaluator expression j are the same
\* call tree: a vec2 of two literals against a new Complex of the same two
\* values, z against z, and c_X against Complex.X with the arguments in order
RECURSIVE SameCallTree(_, _)
RECURSIVE SameCallTrees(_, _)
SameCallTree(g, j) ==
    CASE g.code = "identifier" -> j = g
      [] g.code = "literal" -> j.code = "literal" /\ j.value = g.value
      [] g.code = "call" ->
            /\ j.code = "call"
            /\ j.callee = IF g.callee = "vec2" THEN "new Complex" ELSE EvaluatorName(g.callee)
            /\ SameCallTrees(g.args, j.args)
SameCallTrees(gs, js) ==
    /\ Len(gs) = Len(js)
    /\ \A k \in DOMAIN gs : SameCallTree(gs[k], js[k])

\* C13: on every AST parseTokens returns, generateGlslNode and generateJsNode
\* produce the same call tree, c_X in the shader text where Complex.X is in the
\* evaluator text, with the same arguments in order and the same leaves.
C13_GeneratorsSameCallTree ==
    parser.status = "returned" =>
        /\ generateJs(parser.result).ok
        /\ SameCallTree(generateGlslNode(parser.result), generateJs(parser.result).code)

\* the errors tokenize and parseTokens raise
LexicalAndSyntaxErrors ==
    {"Function cannot be empty.", "Invalid characters in function.",
     "Syntax Error: Unexpected token after", "Syntax Error: Operator cannot follow operator",
     "Syntax Error: Unknown identifier", "Syntax Error: Mismatched parentheses.",
     "Syntax Error: Missing operand for operator", "Syntax Error: Invalid unary minus.",
     "Syntax Error: Not enough arguments for function",
     "Syntax Error: Invalid expression structure."}

\* C14: every failure Expression.parse signals is a lexical or syntax error of
\* tokenize or parseTokens; generating the evaluator never throws for an AST
\* parseTokens returned.
C14_OnlyLexicalAndSyntaxErrors ==
    /\ lastOutcome = "threw" => lastError.message \in LexicalAndSyntaxErrors
    /\ ast # Null => generateJs(ast).ok

\* the text generateGlsl writes for the AST of "z"
GlslOfZ == "vec2 F_Z(vec2 z) {\n    return z;\n}"

\* C15: an Expression constructed with no source or with the empty string has
\* compiled "z": right after construction evaluate(w) is w and getGlslCode()
\* is the F_Z definition returning z; and in every state after the constructor
\* the stored AST is not null, so getGlslCode never answers its fallback.
C15_SeededWithZ ==
    /\ ast # Null
    /\ getGlslCode(ast) = generateGlsl(ast)
    /\ (~calls.parseCalled /\ calls.constructorArg \in {NoSource, Given(<< >>)}) =>
          /\ lastOutcome = "returned"
          /\ ast = Variable(S_z)
          /\ \A w \in SampleInputs : evaluate(jsFunction, w) = w
          /\ getGlslCode(ast) = GlslOfZ

C15_Witness ==
    /\ calls = [constructorArg |-> NoSource, parseCalled |-> FALSE, repeated |-> FALSE]
    /\ ast = Variable(S_z)
    /\ jsFunction = Ident("z")

\* the outputs of an Expression whose fields are tree and fn
Outputs(tree, fn) ==
    [glsl |-> getGlslCode(tree), values |-> [z \in SampleInputs |-> evaluate(fn, z)]]

\* whether the Expression has, after the step, the outputs of the fields e
OutputsAfterStepAre(e) == Outputs(ast', jsFunction') = Outputs(e.ast, e.jsFunction)

\* C16: a parse call with the source of the call before it leaves getGlslCode()
\* and evaluate(z) as the first call left them; and after a parse call that
\* returned they are those of a new Expression compiled from the same source.
C16_CompilingIsIdempotent ==
    [][/\ lastSource' = lastSource =>
              /\ lastOutcome' = lastOutcome
              /\ Outputs(ast', jsFunction') = Outputs(ast, jsFunction)
       /\ lastOutcome' = "returned" =>
              OutputsAfterStepAre(ExpressionParse(FieldDefaults, lastSource'))]_vars

C16_Witness ==
    /\ calls.repeated
    /\ lastSource = Src_pow32
    /\ lastOutcome = "returned"
    /\ evaluate(jsFunction, Real(0)) = Real(9)

Zero == Complex(Num(0, 0), Num(0, 0))

\* C17: Complex.inv((0,0)) and Complex.div(a, (0,0)) for every a return the
\* value whose two components are +Infinity, never a NaN component.
C17_ZeroDivisorGivesInfinity ==
    /\ (computed.method = "inv" /\ operands.a = Zero) =>
          computed.value = Complex(Infinity, Infinity)
    /\ (computed.method = "div" /\ operands.b = Zero) =>
          computed.value = Complex(Infinity, Infinity)

\* tokens is -a op b
IsNegatedOperation ==
    /\ Len(tokens) = 4
    /\ tokens[1] = Token("Operator", <<"-">>)
    /\ IsOperandToken(tokens[2]) /\ IsBinaryToken(tokens[3]) /\ IsOperandToken(tokens[4])

\* C18: when a binary operator token has been pushed, no unary-minus marker
\* lies under it: the markers on top were reduced first, whatever the
\* operator; so -a op b parses to op(UnaryMinus(a), b) for every op, ^ included.
C18_UnaryMinusReducedFirst ==
    /\ (/\ parser.status = "running"
        /\ Len(parser.operatorStack) >= 2
        /\ Top(parser.operatorStack).type = "Operator"
        /\ Top(parser.operatorStack) = parser.lastToken) =>
          parser.operatorStack[Len(parser.operatorStack) - 1].type # "UnaryMinus"
    /\ (Finished /\ IsNegatedOperation) =>
          /\ parser.status = "returned"
          /\ parser.result =
                BinaryOperation(tokens[3].value, UnaryMinus(Leaf(tokens[2])), Leaf(tokens[4]))

C18_Witness ==
    /\ tokens = Toks(<<"-", "z", "^", "3">>)
    /\ parser.status = "returned"
    /\ parser.result = BinaryOperation(<<"^">>, UnaryMinus(Variable(S_z)), Three)

\* whether the AST has a FunctionCall node
RECURSIVE HasFunctionCall(_)
HasFunctionCall(node) ==
    CASE node.type = "FunctionCall" -> TRUE
      [] node.type = "BinaryOperation" -> HasFunctionCall(node.left) \/ HasFunctionCall(node.right)
      [] node.type = "UnaryMinus" -> HasFunctionCall(node.operand)
      [] OTHER -> FALSE

\* the identifiers of the array are declared names, and none of them is directly
\* followed by a LeftParen
NoCallSyntax ==
    \A k \in DOMAIN tokens :
        tokens[k].type = "Identifier" =>
            /\ tokens[k].value \in DeclaredNames
            /\ k = Len(tokens) \/ tokens[k + 1].type # "LeftParen"

\* C19: a function-name marker becomes a FunctionCall only at the RightParen of
\* the parenthesised list that directly follows the name: a token array in
\* which no name is followed by a LeftParen (2,sin or (2)sin or sin) never
\* returns an AST with a FunctionCall.
C19_CallOnlyAtItsRightParen ==
    (parser.status = "returned" /\ NoCallSyntax) => ~HasFunctionCall(parser.result)

\* how many LeftParen tokens of the first n are still unmatched, or -1 when a
\* RightParen among them had no unmatched LeftParen before it
RECURSIVE OpenParens(_, _)
OpenParens(toks, n) ==
    IF n = 0 THEN 0
    ELSE LET before == OpenParens(toks, n - 1)
         IN  IF before = -1 THEN -1
             ELSE IF toks[n].type = "LeftParen" THEN before + 1
             ELSE IF toks[n].type = "RightParen" THEN before - 1
             ELSE before

Balanced(toks) == OpenParens(toks, Len(toks)) = 0

\* C20: parseTokens returns an AST only for token arrays with balanced
\* parentheses (an unmatched RightParen or LeftParen is rejected with an
\* error); when it returns, the operator stack is empty and the output queue
\* holds exactly one node, the AST.
C20_ReturnsOnlyBalanced ==
    /\ parser.status = "returned" =>
          /\ Balanced(tokens)
          /\ parser.operatorStack = << >>
          /\ Len(parser.outputQueue) = 1
          /\ parser.result = parser.outputQueue[1]
    /\ (Finished /\ ~Balanced(tokens)) =>
          /\ parser.status = "threw"
          /\ parser.error # NoError
          /\ parser.result = Null

C20_Witness ==
    /\ tokens = Toks(Src_unbalanced)
    /\ parser.status = "threw"
    /\ parser.error.message = "Syntax Error: Mismatched parentheses."
    /\ parser.pos > Len(tokens)

\* whether every FunctionCall node of the AST is a call of a declared function
\* with as many arguments as its arity
RECURSIVE CallsHaveArity(_)
CallsHaveArity(node) ==
    CASE node.type = "FunctionCall" ->
            /\ HasOwn(FUNCTIONS, node.functionName)
            /\ Len(node.args) = FUNCTIONS[node.functionName].arity
            /\ \A k \in DOMAIN node.args : CallsHaveArity(node.args[k])
      [] node.type = "BinaryOperation" -> CallsHaveArity(node.left) /\ CallsHaveArity(node.right)
      [] node.type = "UnaryMinus" -> CallsHaveArity(node.operand)
      [] OTHER -> TRUE

\* C21: every FunctionCall node the parser builds has as many arguments as the
\* declared arity of its function (1, or 2 for pow), the last nodes of the
\* output queue in their order (pow(3,2) is pow of 3 and 2); a step on a Comma
\* token changes neither the output queue nor the operator stack.
C21_CallsTakeArityArguments ==
    [][/\ \A k \in DOMAIN parser'.outputQueue : CallsHaveArity(parser'.outputQueue[k])
       /\ (tokens = Toks(Src_pow32) /\ parser'.status # "running") =>
              parser'.result = FunctionCall(S_pow, <<Three, Two>>)
       /\ (parser.status = "running" /\ parser.pos <= Len(tokens)
           /\ tokens[parser.pos].type = "Comma" /\ parser'.status = "running") =>
              /\ parser'.outputQueue = parser.outputQueue
              /\ parser'.operatorStack = parser.operatorStack]_vars

\* the leaves of an AST, left to right
RECURSIVE Leaves(_)
RECURSIVE LeavesOfArgs(_)
Leaves(node) ==
    CASE node.type \in {"Constant", "Variable"} -> <<node>>
      [] node.type = "BinaryOperation" -> Leaves(node.left) \o Leaves(node.right)
      [] node.type = "UnaryMinus" -> Leaves(node.operand)
      [] node.type = "FunctionCall" -> LeavesOfArgs(node.args)
LeavesOfArgs(args) ==
    IF args = << >> THEN << >> ELSE Leaves(Head(args)) \o LeavesOfArgs(Tail(args))

\* how many nodes of the given type an AST has
RECURSIVE CountNodes(_, _)
RECURSIVE CountNodesOfArgs(_, _)
CountNodes(node, type) ==
    (IF node.type = type THEN 1 ELSE 0) +
        CASE node.type = "BinaryOperation" -> CountNodes(node.left, type) + CountNodes(node.right, type)
          [] node.type = "UnaryMinus" -> CountNodes(node.operand, type)
          [] node.type = "FunctionCall" -> CountNodesOfArgs(node.args, type)
          [] OTHER -> 0
CountNodesOfArgs(args, type) ==
    IF args = << >> THEN 0 ELSE CountNodes(Head(args), type) + CountNodesOfArgs(Tail(args), type)

\* the operands the token array names, left to right
RECURSIVE OperandsOf(_)
OperandsOf(toks) ==
    IF toks = << >> THEN << >>
    ELSE (IF IsOperandToken(Head(toks)) THEN <<Leaf(Head(toks))>> ELSE << >>) \o OperandsOf(Tail(toks))

\* the '-' at position k stands at the start or after an Operator or LeftParen
UnaryAt(k) ==
    /\ tokens[k] = Token("Operator", <<"-">>)
    /\ k = 1 \/ tokens[k - 1].type \in {"Operator", "LeftParen"}

\* C25: the leaves of a returned AST, left to right, are the operands of the
\* token array in their order, and the AST has one BinaryOperation node per
\* binary operator token, one UnaryMinus node per unary minus and one
\* FunctionCall node per function-name token.
C25_OperandsAndOperatorsConserved ==
    parser.status = "returned" =>
        /\ Leaves(parser.result) = OperandsOf(tokens)
        /\ CountNodes(parser.result, "BinaryOperation") =
              Cardinality({k \in DOMAIN tokens : tokens[k].type = "Operator" /\ ~UnaryAt(k)})
        /\ CountNodes(parser.result, "UnaryMinus") =
              Cardinality({k \in DOMAIN tokens : UnaryAt(k)})
        /\ CountNodes(parser.result, "FunctionCall") =
              Cardinality({k \in DOMAIN tokens :
                              tokens[k].type = "Identifier" /\ ~IsOperandToken(tokens[k])})

C25_Witness ==
    /\ tokens = Toks(<<"z", "/", "2", "-", "3">>)
    /\ parser.status = "returned"
    /\ Leaves(parser.result) = <<Variable(S_z), Two, Three>>

\* tokens is pow ( a , - b )
IsPowOfNegated ==
    /\ Len(tokens) = 7
    /\ tokens[1] = Token("Identifier", S_pow) /\ tokens[2].type = "LeftParen"
    /\ IsOperandToken(tokens[3]) /\ tokens[4].type = "Comma"
    /\ tokens[5] = Token("Operator", <<"-">>)
    /\ IsOperandToken(tokens[6]) /\ tokens[7].type = "RightParen"

\* C26: a '-' token right after a Comma token is pushed as the binary operator,
\* never as a unary-minus marker; so pow(a,-b) holds the one node a - b in its
\* parentheses and is rejected with 'Not enough arguments for function'.
C26_MinusAfterCommaIsBinary ==
    [][/\ (/\ parser.status = "running" /\ parser.pos <= Len(tokens)
           /\ tokens[parser.pos] = Token("Operator", <<"-">>)
           /\ parser.lastToken.type = "Comma"
           /\ parser'.status = "running") =>
              /\ Top(parser'.operatorStack) = Token("Operator", <<"-">>)
              /\ Len(parser'.operatorStack) <= Len(parser.operatorStack) + 1
       /\ (IsPowOfNegated /\ parser'.status # "running") =>
              /\ parser'.status = "threw"
              /\ parser'.error = [message |-> "Syntax Error: Not enough arguments for function",
                                  about |-> S_pow]
              /\ parser'.pos = 7]_vars

C26_Witness ==
    /\ tokens = Toks(Src_powNeg)
    /\ parser.status = "threw"
    /\ parser.error.message = "Syntax Error: Not enough arguments for function"
    /\ Top(parser.operatorStack) = Token("Operator", <<"-">>)

\* a burst of input events awaits its recompile, the latest event being the n-th
AwaitingAfter(n) == app.awaiting /\ app.edits = n

\* the recompile came, or another input event
RecompiledOrEdited(n) == app.edits # n \/ (~app.awaiting /\ lastSource = app.funcInput)

\* C22: at most one recompile timer is pending; an input event cancels the
\* pending timer, schedules one of 150 ms and compiles nothing; updateAndRedraw
\* runs only when 150 ms have passed since the latest input event, once per
\* burst of input events, on the text the field holds when the timer fires;
\* parse touches no timer; and a burst left alone is recompiled.
C22_DebouncedRecompile ==
    /\ [][/\ Cardinality(app'.timers) <= 1
          /\ IsInputEvent =>
                /\ app'.timers = {[id |-> app'.debounceTimeout, remaining |-> DebounceMs]}
                /\ app'.debounceTimeout # app.debounceTimeout
                /\ UNCHANGED expressionVars
          /\ IsTimerRun =>
                /\ app.elapsed = DebounceMs
                /\ lastSource' = app.funcInput
                /\ app'.funcInput = app.funcInput
                /\ app'.runs = app.bursts
                /\ app'.timers = {}
          /\ ~IsTimerRun => UNCHANGED expressionVars
          /\ app'.runs + (IF app'.timers = {} THEN 0 ELSE 1) = app'.bursts]_vars
    /\ \A n \in 1..MaxEdits : AwaitingAfter(n) ~> RecompiledOrEdited(n)

C22_Witness ==
    /\ app # Null
    /\ app.edits >= 2
    /\ app.bursts = 1
    /\ app.runs = 1
    /\ app.timers = {}
    /\ lastSource = Src_sinZ

\* the program a renderer links for source, compiled on its own
ProgramOf(e) == [function |-> getGlslCode(e.ast)]

\* both programs and the evaluator are those of the source, compiled into e
AllDeriveFrom(e) ==
    /\ app.finiteProgram = ProgramOf(e)
    /\ app.infinityProgram = ProgramOf(e)
    /\ jsFunction = e.jsFunction

\* C23: when parse throws, updateAndRedraw displays the message, replaces no
\* program and issues no draw; when it returns, both renderers are given the
\* same GLSL text, the panel is cleared and then both draws are issued; and in
\* every state both programs and the evaluator are those of the latest source
\* that compiled.
C23_RenderersFollowExpression ==
    /\ [][IsTimerRun =>
            IF lastOutcome' = "threw"
            THEN /\ app'.errorPanel = lastError'
                 /\ app'.log = <<[call |-> "displayError", message |-> lastError']>>
                 /\ app'.finiteProgram = app.finiteProgram
                 /\ app'.infinityProgram = app.infinityProgram
                 /\ app'.finiteCanvas = app.finiteCanvas
                 /\ app'.infinityCanvas = app.infinityCanvas
            ELSE /\ Len(app'.log) = 5
                 /\ app'.log[1] = [call |-> "updateFunctionShader", glsl |-> getGlslCode(ast')]
                 /\ app'.log[2] = app'.log[1]
                 /\ app'.log[3] = [call |-> "clearError"]
                 /\ app'.errorPanel = Null
                 /\ app'.log[4].call \in {"draw", "Cannot draw"}
                 /\ app'.log[5].call \in {"draw", "Cannot draw"}]_vars
    /\ [](AllDeriveFrom(ExpressionParse(FieldDefaults, compiledSource)))

\* C24: a renderer that holds a program holds one after every step, and a
\* draw of such a renderer renders.
C24_UsableProgramIsKept ==
    [][/\ app.finiteProgram # Null =>
              /\ app'.finiteProgram # Null
              /\ \A k \in DOMAIN app'.log : app'.log[k].call # "Cannot draw"
       /\ app.infinityProgram # Null => app'.infinityProgram # Null]_vars

=============================================================================
